---- MODULE Spec2Model ----
(***************************************************************************)
(* Model of JewelCraft's mesh helper library (lib/mesh.py) and of its      *)
(* localization table (localization.py).                                   *)
(*                                                                         *)
(* The editable mesh (BMesh) is a record of vertex coordinates, edges and  *)
(* faces, each kept in creation order.  Vertices, edges and faces are      *)
(* named by their 1-based position in those sequences.  A face corner      *)
(* (BMLoop) is a pair <<face, corner>>.                                    *)
(*                                                                         *)
(* Coordinates are exact rationals with the common denominator Den: the    *)
(* integer n stored in a coordinate stands for n / Den.                    *)
(***************************************************************************)
EXTENDS Integers, Sequences, FiniteSets, TLC

VARIABLES
    bm,     \* the BMesh the helpers receive: [verts, edges, faces, radial]
    rings,  \* the vertex lists the caller holds (returned by the helpers)
    call    \* the last helper call: its name, arguments, mesh before, result

meshVars == <<bm, rings, call>>

\* The measurement functions (est_volume, est_curve_length, face_pos), run a
\* statement at a time.
VARIABLES
    pc,        \* the statement to run next; "idle", "returned" or "raised" between calls
    fn,        \* the function running (or last run)
    data,      \* ob.data of the curve: bevel_object, bevel_depth, extrude
    mods,      \* whether ob.modifiers is non-empty
    settings,  \* est_curve_length's settings dict
    saved,     \* ob.data as it was when the call started
    live,      \* the temporaries the call acquired and has not released
    leaked,    \* temporaries earlier calls left live
    items,     \* the geometry the call measures, one number per element
    idx,       \* the element the running loop is at
    total,     \* length / volume accumulated
    mats       \* face_pos's mats

measureVars ==
    <<pc, fn, data, mods, settings, saved, live, leaked, items, idx, total, mats>>

\* The localization table's lookup.
VARIABLES
    lang,   \* the language code looked up last
    key,    \* the message key looked up last
    text    \* what the lookup gave: [found, value]

localeVars == <<lang, key, text>>

\* ------------------------------------------------------------------ bounds

MaxCoord == 1      \* coordinates given to the primitives: -MaxCoord..MaxCoord
PrimMaxVerts == 7  \* vertices of the mesh the primitives fill
RingMaxVerts == 8  \* vertices of the mesh whose ring edges are made and walked
TopoMaxVerts == 9  \* vertices of the mesh whose rings are bridged
MaxLimit == 3      \* edge_loop_expand's limit: 0..MaxLimit
MaxItems == 2      \* objects, edges, splines or polygons a measurement goes over
MaxValue == 2      \* a length, a volume, a bevel depth, an extrusion: 0..MaxValue
MaxLeaked == 2     \* temporaries counted as left live by earlier calls

\* The divisor of make_tri's y / 3.0: the denominator of every coordinate.
Den == 3

Coord == (0 - MaxCoord)..MaxCoord

\* The vertex lists the caller holds: as many rings as fit the mesh.
MaxRings(maxv) == maxv \div 3

\* ----------------------------------------------------------------- helpers

Min(a, b) == IF a <= b THEN a ELSE b

Range(s) == {s[i] : i \in 1..Len(s)}

IsInjective(s) == \A i, j \in 1..Len(s) : s[i] = s[j] => i = j

RECURSIVE SortedSeq(_)
SortedSeq(S) ==
    IF S = {} THEN <<>>
    ELSE LET m == CHOOSE x \in S : \A y \in S : x <= y
         IN <<m>> \o SortedSeq(S \ {m})

\* A number given to a helper, as a coordinate.
Q(n) == n * Den

\* ------------------------------------------------------- the mesh kernel
\* The BMesh operations the helpers call, as the kernel defines them.

\* verts: each vertex's coordinate; edges: each edge's two vertices; faces:
\* each face's vertices in winding order; radial: each edge's loops, in the
\* order the faces holding them were made.
EmptyMesh == [verts |-> <<>>, edges |-> <<>>, faces |-> <<>>, radial |-> <<>>]

NumVerts(m) == Len(m.verts)

\* The edge joining u and v (0 when there is none).
EdgeIndex(m, u, v) ==
    IF \E k \in 1..Len(m.edges) : m.edges[k] = {u, v}
    THEN CHOOSE k \in 1..Len(m.edges) : m.edges[k] = {u, v}
    ELSE 0

\* bm.edges.new((u, v)) raises ValueError for u = v and for an edge that exists.
edges_new_raises(m, pair) ==
    pair[1] = pair[2] \/ EdgeIndex(m, pair[1], pair[2]) # 0

edges_new(m, pair) ==
    [m EXCEPT !.edges = Append(@, {pair[1], pair[2]}),
              !.radial = Append(@, <<>>)]

\* The edge of u and v, created when missing (what faces.new does per side).
EnsureEdge(m, u, v) ==
    IF EdgeIndex(m, u, v) # 0 THEN m ELSE edges_new(m, <<u, v>>)

\* bm.faces.new(vs) raises ValueError for fewer than 3 vertices, for a vertex
\* used twice and for a face that exists on the same vertices.
faces_new_raises(m, vs) ==
    \/ Len(vs) < 3
    \/ ~IsInjective(vs)
    \/ \E f \in 1..Len(m.faces) : Range(m.faces[f]) = Range(vs)

RECURSIVE EnsureEdges(_, _, _)
EnsureEdges(m, vs, i) ==
    IF i > Len(vs) THEN m
    ELSE EnsureEdges(EnsureEdge(m, vs[i], vs[(i % Len(vs)) + 1]), vs, i + 1)

\* bm.faces.new(vs): side i joins vs[i] and the next vertex; the face's
\* corners (loops) follow vs.
faces_new(m, vs) ==
    LET me == EnsureEdges(m, vs, 1)
        f == Len(m.faces) + 1
        side(i) == EdgeIndex(me, vs[i], vs[(i % Len(vs)) + 1])
    IN [me EXCEPT !.faces = Append(@, vs),
                  !.radial = [e \in 1..Len(@) |->
                      IF \E i \in 1..Len(vs) : side(i) = e
                      THEN Append(@[e], <<f, CHOOSE i \in 1..Len(vs) : side(i) = e>>)
                      ELSE @[e]]]

\* ---- loops: <<f, i>> is corner i of face f
LoopVert(m, l) == m.faces[l[1]][l[2]]

link_loop_next(m, l) == <<l[1], (l[2] % Len(m.faces[l[1]])) + 1>>

link_loop_prev(m, l) ==
    <<l[1], ((l[2] + Len(m.faces[l[1]]) - 2) % Len(m.faces[l[1]])) + 1>>

\* loop.edge: the side from the loop's vertex to the next corner's.
LoopEdge(m, l) == EdgeIndex(m, LoopVert(m, l), LoopVert(m, link_loop_next(m, l)))

\* The loops of edge e, oldest first.
RadialSeq(m, e) == m.radial[e]

PosIn(s, x) == CHOOSE i \in 1..Len(s) : s[i] = x

\* The radial cycle of an edge links its loops in creation order; each new
\* loop is linked in after the newest and before the oldest.
link_loop_radial_next(m, l) ==
    LET r == RadialSeq(m, LoopEdge(m, l))
    IN r[(PosIn(r, l) % Len(r)) + 1]

link_loop_radial_prev(m, l) ==
    LET r == RadialSeq(m, LoopEdge(m, l))
    IN r[((PosIn(r, l) + Len(r) - 2) % Len(r)) + 1]

\* edge.link_loops starts at the edge's newest loop and follows radial_next.
link_loops(m, e) ==
    LET r == RadialSeq(m, e)
    IN [i \in 1..Len(r) |-> r[((Len(r) + i - 2) % Len(r)) + 1]]

\* vert.link_edges: the vertex's disk cycle, its edges in creation order.
link_edges(m, v) == SortedSeq({k \in 1..Len(m.edges) : v \in m.edges[k]})

\* edge.other_vert(v)
other_vert(m, e, v) == CHOOSE u \in m.edges[e] : u # v

\* face.edges: one edge per corner, in corner order.
FaceEdges(m, f) == [i \in 1..Len(m.faces[f]) |-> LoopEdge(m, <<f, i>>)]

\* ------------------------------------------------------ lib/iterutils.py
\* pairwise_cyclic(a): each element with its cyclic successor.
pairwise_cyclic(a) == [i \in 1..Len(a) |-> <<a[i], a[(i % Len(a)) + 1]>>]

\* quadwise_cyclic(a, b): per ring step, the step's two vertices of a and the
\* corresponding two of b, wound so that the quad's second side joins a to b.
quadwise_cyclic(a, b) ==
    [i \in 1..Min(Len(a), Len(b)) |->
        <<a[(i % Len(a)) + 1], a[i], b[i], b[(i % Len(b)) + 1]>>]

\* ---------------------------------------------------------- lib/mesh.py
\* Every helper is an operator from the mesh (and its arguments) to
\* [bm: the mesh after the call, raised: whether the call ended by an
\* exception, out: what it returned].

NoOut == [verts |-> <<>>, edges |-> <<>>, faces |-> <<>>, coords |-> <<>>]

Result(m, raised, out) == [bm |-> m, raised |-> raised, out |-> out]

\* x / (num/den) for a coordinate x.
Div(x, num, den) == (x * den) \div num

\* [bm.verts.new(co) for co in cos]: each new vertex is the last of the mesh.
NewVerts(m, cos) ==
    Result([m EXCEPT !.verts = @ \o cos], FALSE,
           [NoOut EXCEPT !.verts = [i \in 1..Len(cos) |-> NumVerts(m) + i]])

make_rect_swapped(m, x, y, z) ==
    NewVerts(m, << <<Q(x), Q(y), Q(z)>>,
                   <<0 - Q(x), Q(y), Q(z)>>,
                   <<Q(x), 0 - Q(y), Q(z)>>,
                   <<0 - Q(x), 0 - Q(y), Q(z)>> >>)

make_rect(m, x, y, z) ==
    NewVerts(m, << <<Q(x), Q(y), Q(z)>>,
                   <<0 - Q(x), Q(y), Q(z)>>,
                   <<0 - Q(x), 0 - Q(y), Q(z)>>,
                   <<Q(x), 0 - Q(y), Q(z)>> >>)

make_tri_third(m, x, y, z) ==
    NewVerts(m, << <<Q(x), Div(Q(y), 3, 1), Q(z)>>,
                   <<0 - Q(x), Div(Q(y), 3, 1), Q(z)>>,
                   <<0, Div(0 - Q(y), 3, 1), Q(z)>> >>)

\* y / 3.0 and -y / 1.5 (1.5 = 3/2)
make_tri(m, x, y, z) ==
    NewVerts(m, << <<Q(x), Div(Q(y), 3, 1), Q(z)>>,
                   <<0 - Q(x), Div(Q(y), 3, 1), Q(z)>>,
                   <<0, Div(0 - Q(y), 3, 2), Q(z)>> >>)

\* bmesh.ops.duplicate(bm, geom=verts): the kernel copies the given vertices
\* in mesh order; dup["geom"] holds the copies.
ops_duplicate(m, verts) ==
    LET src == SortedSeq(Range(verts))
    IN NewVerts(m, [i \in 1..Len(src) |-> m.verts[src[i]]])

SetZ(m, vs, z) ==
    [m EXCEPT !.verts = [v \in 1..Len(@) |->
        IF v \in Range(vs) THEN [@[v] EXCEPT ![3] = Q(z)] ELSE @[v]]]

duplicate_verts_moves_given(m, verts, hasz, z) ==
    LET dup == ops_duplicate(m, verts)
    IN IF hasz THEN Result(SetZ(dup.bm, verts, z), FALSE, dup.out) ELSE dup

\* z is None: hasz = FALSE
duplicate_verts(m, verts, hasz, z) ==
    LET dup == ops_duplicate(m, verts)
    IN IF hasz THEN Result(SetZ(dup.bm, dup.out.verts, z), FALSE, dup.out) ELSE dup

\* [bm.edges.new(x) for x in pairs]: an exception ends the comprehension and
\* leaves the edges made so far in the mesh.
RECURSIVE EdgesFrom(_, _, _, _)
EdgesFrom(m, pairs, i, acc) ==
    IF i > Len(pairs) THEN Result(m, FALSE, [NoOut EXCEPT !.edges = acc])
    ELSE IF edges_new_raises(m, pairs[i]) THEN Result(m, TRUE, NoOut)
    ELSE EdgesFrom(edges_new(m, pairs[i]), pairs, i + 1,
                   Append(acc, Len(m.edges) + 1))

make_edges_open(m, verts) ==
    EdgesFrom(m, SubSeq(pairwise_cyclic(verts), 1, Len(verts) - 1), 1, <<>>)

make_edges(m, verts) == EdgesFrom(m, pairwise_cyclic(verts), 1, <<>>)

\* [bm.faces.new(x) for x in quads]
RECURSIVE FacesFrom(_, _, _, _)
FacesFrom(m, quads, i, acc) ==
    IF i > Len(quads) THEN Result(m, FALSE, [NoOut EXCEPT !.faces = acc])
    ELSE IF faces_new_raises(m, quads[i]) THEN Result(m, TRUE, NoOut)
    ELSE FacesFrom(faces_new(m, quads[i]), quads, i + 1,
                   Append(acc, Len(m.faces) + 1))

bridge_verts_first_edge(m, v1, v2) ==
    LET made == FacesFrom(m, quadwise_cyclic(v1, v2), 1, <<>>)
    IN IF made.raised THEN made
       ELSE Result(made.bm, FALSE,
                [made.out EXCEPT !.edges =
                    [i \in 1..Len(made.out.faces) |->
                        FaceEdges(made.bm, made.out.faces[i])[1]]])

\* {"faces": faces, "edges": [f.edges[1] for f in faces]}
bridge_verts(m, v1, v2) ==
    LET made == FacesFrom(m, quadwise_cyclic(v1, v2), 1, <<>>)
    IN IF made.raised THEN made
       ELSE Result(made.bm, FALSE,
                [made.out EXCEPT !.edges =
                    [i \in 1..Len(made.out.faces) |->
                        FaceEdges(made.bm, made.out.faces[i])[2]]])

\* loop_next.link_loop_next.link_loop_radial_next.link_loop_next
loop_forward(m, l) ==
    link_loop_next(m, link_loop_radial_next(m, link_loop_next(m, l)))

\* loop_prev.link_loop_prev.link_loop_radial_prev.link_loop_prev
loop_backward(m, l) ==
    link_loop_prev(m, link_loop_radial_prev(m, link_loop_prev(m, l)))

\* for _ in range(1, limit): k counts the iterations from 1
RECURSIVE ExpandFrom(_, _, _, _, _, _)
ExpandFrom(m, loop_next, loop_prev, k, limit, acc) ==
    IF k >= limit THEN acc
    ELSE LET n == loop_forward(m, loop_next)
             p == loop_backward(m, loop_prev)
         IN ExpandFrom(m, n, p, k + 1, limit,
                       acc \o <<LoopEdge(m, n), LoopEdge(m, p)>>)

edge_loop_expand_from_zero(m, e, limit) ==
    IF Len(link_loops(m, e)) = 0 THEN Result(m, TRUE, NoOut)
    ELSE LET loop == link_loops(m, e)[1]
         IN Result(m, FALSE, [NoOut EXCEPT !.edges =
                ExpandFrom(m, loop, loop, 0, limit, <<e>>)])

\* e.link_loops[0] raises IndexError for an edge of no face.
edge_loop_expand(m, e, limit) ==
    IF Len(link_loops(m, e)) = 0 THEN Result(m, TRUE, NoOut)
    ELSE LET loop == link_loops(m, e)[1]
         IN Result(m, FALSE, [NoOut EXCEPT !.edges =
                ExpandFrom(m, loop, loop, 1, limit, <<e>>)])

NextEdge_stays(m, ov, e) == e

\* for oe in ov.link_edges: if oe != e: e = oe; break
NextEdge(m, ov, e) ==
    LET le == link_edges(m, ov)
    IN IF \E i \in 1..Len(le) : le[i] # e
       THEN le[CHOOSE i \in 1..Len(le) :
                  le[i] # e /\ \A j \in 1..(i - 1) : le[j] = e]
       ELSE e

\* for _ in range(len(verts) - 1): out.verts are the vertices visited and
\* out.edges the edge each step went along, beside the coordinates returned.
RECURSIVE WalkFrom(_, _, _, _, _)
WalkFrom(m, v, e, steps, out) ==
    IF steps <= 0 THEN out
    ELSE LET ov == other_vert(m, e, v)
         IN WalkFrom(m, ov, NextEdge(m, ov, e), steps - 1,
                     [out EXCEPT !.coords = Append(@, m.verts[ov]),
                                 !.verts = Append(@, ov),
                                 !.edges = Append(@, e)])

\* verts[0] and v.link_edges[1] raise IndexError for an empty list and for a
\* vertex of fewer than two edges.
edge_loop_walk(m, verts) ==
    IF Len(verts) = 0 \/ Len(link_edges(m, verts[1])) < 2
    THEN Result(m, TRUE, NoOut)
    ELSE LET v == verts[1]
             e == link_edges(m, v)[2]
         IN Result(m, FALSE,
                WalkFrom(m, v, e, Len(verts) - 1,
                         [NoOut EXCEPT !.coords = <<m.verts[v]>>,
                                       !.verts = <<v>>]))

\* -------------------------------------------------------- localization.py
\* The table `locale`: per language code, the entries of its dict literal in
\* source order, each <<message key, display string>>.  A character outside
\* ASCII is written \uXXXX.

EN_entries ==
    <<
       <<"prongs", "Prongs">>,
       <<"cutter", "Cutter">>,
       <<"make_gem", "Make Gemstone">>,
       <<"make_dupliface", "Make Dupli-face">>,
       <<"export_options", "Export Options">>,
       <<"metals", "Metals">>,
       <<"export_stats", "Export Stats">>,
       <<"size", "Size">>,
       <<"shank", "Shank">>,
       <<"dim", "Dimensions">>,
       <<"weight", "Weight">>,
       <<"t_size", "Size:">>,
       <<"t_width", "Width:">>,
       <<"t_thickness", "Thickness:">>,
       <<"t_dim", "Dimensions:">>,
       <<"t_weight", "Weight:">>,
       <<"t_settings", "Settings:">>,
       <<"type", "Type">>,
       <<"cut", "Cut">>,
       <<"qty", "Qty">>,
       <<"items", "items">>,
       <<"mm", "mm">>,
       <<"g", "g">>,
       <<"ct", "ct">>,
       <<"g/cm", "g/cm\\u00b3:">>,
       <<"24kt", "24kt Gold">>,
       <<"22kt", "22kt Gold">>,
       <<"18kt_white", "18kt White gold">>,
       <<"14kt_white", "14kt White gold">>,
       <<"18kt_yellow", "18kt Yellow gold">>,
       <<"14kt_yellow", "14kt Yellow gold">>,
       <<"silver", "Silver">>,
       <<"palladium", "Palladium">>,
       <<"platinum", "Platinum">>,
       <<"custom", "Custom density:">>,
       <<"custom_name", "Material:">>,
       <<"diamond", "Diamond">>,
       <<"zircon", "Zircon">>,
       <<"topaz", "Topaz">>,
       <<"emerald", "Emerald">>,
       <<"ruby", "Ruby">>,
       <<"sapphire", "Sapphire">>,
       <<"round", "Round">>,
       <<"oval", "Oval">>,
       <<"pearl", "Pearl">>,
       <<"marquise", "Marquise">>,
       <<"baguette", "Baguette">>,
       <<"square", "Square">>,
       <<"error_file", "First save your blend file">>,
       <<"error_digit", "Value should be numeric">>
    >>

RU_entries ==
    <<
       <<"prongs", "\\u041a\\u0440\\u0430\\u043f\\u0430\\u043d\\u0430">>,
       <<"cutter", "\\u0412\\u044b\\u0431\\u043e\\u0440\\u043a\\u0430">>,
       <<"make_gem", "\\u0421\\u043e\\u0437\\u0434\\u0430\\u0442\\u044c \\u041a\\u0430\\u043c\\u0435\\u043d\\u044c">>,
       <<"make_dupliface", "\\u0421\\u043e\\u0437\\u0434\\u0430\\u0442\\u044c Dupli-face">>,
       <<"export_options", "\\u041e\\u043f\\u0446\\u0438\\u0438 \\u042d\\u043a\\u0441\\u043f\\u043e\\u0440\\u0442\\u0430">>,
       <<"metals", "\\u041c\\u0435\\u0442\\u0430\\u043b\\u043b\\u044b">>,
       <<"export_stats", "\\u042d\\u043a\\u0441\\u043f\\u043e\\u0440\\u0442 \\u0421\\u0442\\u0430\\u0442\\u0438\\u0441\\u0442\\u0438\\u043a\\u0438">>,
       <<"size", "\\u0420\\u0430\\u0437\\u043c\\u0435\\u0440">>,
       <<"shank", "\\u0428\\u0438\\u043d\\u043a\\u0430">>,
       <<"dim", "\\u0413\\u0430\\u0431\\u0430\\u0440\\u0438\\u0442\\u044b">>,
       <<"weight", "\\u0412\\u0435\\u0441">>,
       <<"t_size", "\\u0420\\u0430\\u0437\\u043c\\u0435\\u0440:">>,
       <<"t_width", "\\u0428\\u0438\\u0440\\u0438\\u043d\\u0430:">>,
       <<"t_thickness", "\\u0422\\u043e\\u043b\\u0449\\u0438\\u043d\\u0430:">>,
       <<"t_dim", "\\u0413\\u0430\\u0431\\u0430\\u0440\\u0438\\u0442\\u044b:">>,
       <<"t_weight", "\\u0412\\u0435\\u0441:">>,
       <<"t_settings", "\\u0412\\u0441\\u0442\\u0430\\u0432\\u043a\\u0438:">>,
       <<"type", "\\u0422\\u0438\\u043f">>,
       <<"cut", "\\u041e\\u0433\\u0440\\u0430\\u043d\\u043a\\u0430">>,
       <<"qty", "\\u041a\\u043e\\u043b\\u0438\\u0447\\u0435\\u0441\\u0442\\u0432\\u043e">>,
       <<"items", "\\u0448\\u0442.">>,
       <<"mm", "\\u043c\\u043c">>,
       <<"g", "\\u0433">>,
       <<"ct", "\\u043a\\u0430\\u0440">>,
       <<"g/cm", "\\u0433/\\u0441\\u043c\\u00b3:">>,
       <<"24kt", "999 \\u0417\\u043e\\u043b\\u043e\\u0442\\u043e">>,
       <<"22kt", "916 \\u0417\\u043e\\u043b\\u043e\\u0442\\u043e">>,
       <<"18kt_white", "750 \\u0411\\u0435\\u043b\\u043e\\u0435 \\u0437\\u043e\\u043b\\u043e\\u0442\\u043e">>,
       <<"14kt_white", "585 \\u0411\\u0435\\u043b\\u043e\\u0435 \\u0437\\u043e\\u043b\\u043e\\u0442\\u043e">>,
       <<"18kt_yellow", "750 \\u0416\\u0451\\u043b\\u0442\\u043e\\u0435 \\u0437\\u043e\\u043b\\u043e\\u0442\\u043e">>,
       <<"14kt_yellow", "585 \\u0416\\u0451\\u043b\\u0442\\u043e\\u0435 \\u0437\\u043e\\u043b\\u043e\\u0442\\u043e">>,
       <<"silver", "C\\u0435\\u0440\\u0435\\u0431\\u0440\\u043e">>,
       <<"palladium", "\\u041f\\u0430\\u043b\\u043b\\u0430\\u0434\\u0438\\u0439">>,
       <<"platinum", "\\u041f\\u043b\\u0430\\u0442\\u0438\\u043d\\u0430">>,
       <<"custom", "\\u041f\\u0440\\u043e\\u0438\\u0437\\u0432\\u043e\\u043b\\u044c\\u043d\\u0430\\u044f \\u043f\\u043b\\u043e\\u0442\\u043d\\u043e\\u0441\\u0442\\u044c:">>,
       <<"custom_name", "\\u041c\\u0430\\u0442\\u0435\\u0440\\u0438\\u0430\\u043b:">>,
       <<"diamond", "\\u0411\\u0440\\u0438\\u043b\\u043b\\u0438\\u0430\\u043d\\u0442">>,
       <<"zircon", "\\u0424\\u0438\\u0430\\u043d\\u0438\\u0442">>,
       <<"topaz", "\\u0422\\u043e\\u043f\\u0430\\u0437">>,
       <<"emerald", "\\u0418\\u0437\\u0443\\u043c\\u0440\\u0443\\u0434">>,
       <<"ruby", "\\u0420\\u0443\\u0431\\u0438\\u043d">>,
       <<"sapphire", "\\u0421\\u0430\\u043f\\u0444\\u0438\\u0440">>,
       <<"round", "\\u041a\\u0440-57">>,
       <<"oval", "\\u041e\\u0432\\u0430\\u043b">>,
       <<"pearl", "\\u0413\\u0440\\u0443\\u0448\\u0430">>,
       <<"marquise", "\\u041c\\u0430\\u0440\\u043a\\u0438\\u0437">>,
       <<"baguette", "\\u0411\\u0430\\u0433\\u0435\\u0442">>,
       <<"square", "\\u041a\\u0432\\u0430\\u0434\\u0440\\u0430\\u0442">>,
       <<"error_file", "\\u0421\\u043d\\u0430\\u0447\\u0430\\u043b\\u0430 \\u0441\\u043e\\u0445\\u0440\\u0430\\u043d\\u0438\\u0442\\u0435 \\u0432\\u0430\\u0448 blend \\u0444\\u0430\\u0439\\u043b">>,
       <<"error_digit", "\\u0417\\u043d\\u0430\\u0447\\u0435\\u043d\\u0438\\u0435 \\u0434\\u043e\\u043b\\u0436\\u043d\\u043e \\u0431\\u044b\\u0442\\u044c \\u0447\\u0438\\u0441\\u043b\\u043e\\u0432\\u044b\\u043c">>
    >>

\* The dict a literal builds: a key's value is that of its last entry.
DictOf(entries) ==
    [k \in {entries[i][1] : i \in 1..Len(entries)} |->
        entries[CHOOSE i \in 1..Len(entries) :
                    /\ entries[i][1] = k
                    /\ \A j \in (i + 1)..Len(entries) : entries[j][1] # k][2]]

LocaleEN == DictOf(EN_entries)

LocaleRU_short == DictOf(SubSeq(RU_entries, 1, Len(RU_entries) - 1))

LocaleRU == DictOf(RU_entries)

locale == [EN |-> LocaleEN, RU |-> LocaleRU]

LangCodes == DOMAIN locale

\* Every message key some language defines.
AllKeys == UNION {DOMAIN locale[l] : l \in LangCodes}

NoText == [found |-> FALSE, value |-> ""]

LocaleIdle ==
    /\ lang = ""
    /\ key = ""
    /\ text = NoText

\* locale[l][k]: the display string, or KeyError (found = FALSE).
Lookup ==
    \E l \in LangCodes, k \in AllKeys :
        /\ lang' = l
        /\ key' = k
        /\ text' = IF k \in DOMAIN locale[l]
                   THEN [found |-> TRUE, value |-> locale[l][k]]
                   ELSE NoText
        /\ UNCHANGED <<meshVars, measureVars>>

\* No helper called yet.
NoCall ==
    [op |-> "none", x |-> 0, y |-> 0, z |-> 0, hasz |-> FALSE,
     verts |-> <<>>, verts2 |-> <<>>, edge |-> 0, limit |-> 0,
     pre |-> EmptyMesh, raised |-> FALSE, out |-> NoOut]

MeshIdle ==
    /\ bm = EmptyMesh
    /\ rings = <<>>
    /\ call = NoCall

\* ------------------------------------------- lib/mesh.py: measurements
\* est_volume, est_curve_length and face_pos run a statement at a time; pc
\* names the source line of the statement to run next.  A statement that
\* calls into the kernel or the scene may raise instead, which ends the call
\* where it stands: the functions hold no try/finally.

Ended == {"returned", "raised"}

\* The lengths, volumes or selected-polygon counts of what a call measures.
ItemLists == UNION {[1..n -> 0..MaxValue] : n \in 0..MaxItems}

\* The keys of est_curve_length's settings dict, in the dict's order.
Keys == <<"bevel_object", "bevel_depth", "extrude">>

\* {"bevel_object": None, "bevel_depth": 0.0, "extrude": 0.0}; None is 0.
ResetSettings == [bevel_object |-> 0, bevel_depth |-> 0, extrude |-> 0]

MeasureIdle ==
    /\ pc = "idle"
    /\ fn = "none"
    /\ mods = FALSE
    /\ settings = ResetSettings
    /\ saved = data
    /\ live = {}
    /\ leaked = 0
    /\ items = <<>>
    /\ idx = 1
    /\ total = 0
    /\ mats = <<>>

\* A call starts when none is running; what the last call left live stays so.
Begin(f, its, m, first) ==
    /\ pc \in {"idle"} \cup Ended
    /\ pc' = first
    /\ fn' = f
    /\ items' = its
    /\ mods' = m
    /\ saved' = data
    /\ leaked' = Min(leaked + Cardinality(live), MaxLeaked)
    /\ live' = {}
    /\ idx' = 1
    /\ total' = 0
    /\ mats' = <<>>
    /\ UNCHANGED <<data, settings, meshVars, localeVars>>

\* The statement at `at` runs: it acquires `acq`, releases `rel`, and the
\* call goes on to `to`.
Step(at, to, acq, rel) ==
    /\ pc = at
    /\ pc' = to
    /\ live' = (live \cup acq) \ rel
    /\ UNCHANGED <<fn, data, mods, settings, saved, leaked, items, meshVars, localeVars>>

Same(vs) == UNCHANGED vs

\* ---- est_curve_length(ob)
ecl_call ==
    \E m \in BOOLEAN, its \in ItemLists :
        Begin("est_curve_length", its, m, IF m THEN "L91" ELSE "L130")

\* settings = {...}
ecl_L91 ==
    /\ pc = "L91"
    /\ pc' = "L97"
    /\ settings' = ResetSettings
    /\ idx' = 1
    /\ UNCHANGED <<fn, data, mods, saved, live, leaked, items, total, mats,
                   meshVars, localeVars>>

\* for k, v in settings.items(): x = getattr(ob.data, k);
\* setattr(ob.data, k, v); settings[k] = x
ecl_L97 ==
    /\ pc = "L97"
    /\ idx <= Len(Keys)
    /\ data' = [data EXCEPT ![Keys[idx]] = settings[Keys[idx]]]
    /\ settings' = [settings EXCEPT ![Keys[idx]] = data[Keys[idx]]]
    /\ idx' = idx + 1
    /\ pc' = IF idx = Len(Keys) THEN "L105" ELSE "L97"
    /\ UNCHANGED <<fn, mods, saved, live, leaked, items, total, mats,
                   meshVars, localeVars>>

\* depsgraph = bpy.context.evaluated_depsgraph_get()
ecl_L105 == Step("L105", "L106", {}, {}) /\ Same(<<idx, total, mats>>)

\* ob_eval = ob.evaluated_get(depsgraph)
ecl_L106 == Step("L106", "L107", {}, {}) /\ Same(<<idx, total, mats>>)

\* me = ob_eval.to_mesh()
ecl_L107 == Step("L107", "L108", {"me"}, {}) /\ Same(<<idx, total, mats>>)

\* me.transform(ob.matrix_world)
ecl_L108 == Step("L108", "L110", {}, {}) /\ Same(<<idx, total, mats>>)

\* bm = bmesh.new()
ecl_L110 == Step("L110", "L111", {"bm"}, {}) /\ Same(<<idx, total, mats>>)

\* bm.from_mesh(me)
ecl_L111 == Step("L111", "L113", {}, {}) /\ Same(<<idx, total, mats>>)

\* ob_eval.to_mesh_clear()
ecl_L113 == Step("L113", "L115", {}, {"me"}) /\ Same(<<idx, total, mats>>)

\* length = 0.0
ecl_L115 ==
    Step("L115", "L117", {}, {}) /\ idx' = 1 /\ total' = 0 /\ Same(<<mats>>)

\* for edge in bm.edges: length += edge.calc_length()
ecl_L117 ==
    /\ pc = "L117"
    /\ IF idx <= Len(items)
       THEN pc' = "L117" /\ total' = total + items[idx] /\ idx' = idx + 1
       ELSE pc' = "L120" /\ UNCHANGED <<total, idx>>
    /\ UNCHANGED <<fn, data, mods, settings, saved, live, leaked, items, mats,
                   meshVars, localeVars>>

\* bm.free()
ecl_L120 == Step("L120", "L125", {}, {"bm"}) /\ idx' = 1 /\ Same(<<total, mats>>)

\* for k, v in settings.items(): setattr(ob.data, k, v)
ecl_L125 ==
    /\ pc = "L125"
    /\ idx <= Len(Keys)
    /\ data' = [data EXCEPT ![Keys[idx]] = settings[Keys[idx]]]
    /\ idx' = idx + 1
    /\ pc' = IF idx = Len(Keys) THEN "L140" ELSE "L125"
    /\ UNCHANGED <<fn, mods, settings, saved, live, leaked, items, total, mats,
                   meshVars, localeVars>>

\* curve = ob.data.copy()
ecl_L130 == Step("L130", "L131", {"curve"}, {}) /\ Same(<<idx, total, mats>>)

\* curve.transform(ob.matrix_world)
ecl_L131 == Step("L131", "L133", {}, {}) /\ Same(<<idx, total, mats>>)

\* length = 0.0
ecl_L133 ==
    Step("L133", "L135", {}, {}) /\ idx' = 1 /\ total' = 0 /\ Same(<<mats>>)

\* for spline in curve.splines: length += spline.calc_length()
ecl_L135 ==
    /\ pc = "L135"
    /\ IF idx <= Len(items)
       THEN pc' = "L135" /\ total' = total + items[idx] /\ idx' = idx + 1
       ELSE pc' = "L138" /\ UNCHANGED <<total, idx>>
    /\ UNCHANGED <<fn, data, mods, settings, saved, live, leaked, items, mats,
                   meshVars, localeVars>>

\* bpy.data.curves.remove(curve)
ecl_L138 == Step("L138", "L140", {}, {"curve"}) /\ Same(<<idx, total, mats>>)

\* return length
ecl_L140 == Step("L140", "returned", {}, {}) /\ Same(<<idx, total, mats>>)

\* ---- est_volume(obs)
ev_call == \E its \in ItemLists : Begin("est_volume", its, FALSE, "L65")

\* depsgraph = bpy.context.evaluated_depsgraph_get()
ev_L65 == Step("L65", "L66", {}, {}) /\ Same(<<idx, total, mats>>)

\* bm = bmesh.new()
ev_L66 == Step("L66", "L68", {"bm"}, {}) /\ Same(<<idx, total, mats>>)

\* for ob in obs:
ev_L68 ==
    /\ Step("L68", IF idx <= Len(items) THEN "L69" ELSE "L77", {}, {})
    /\ Same(<<idx, total, mats>>)

\* ob_eval = ob.evaluated_get(depsgraph)
ev_L69 == Step("L69", "L70", {}, {}) /\ Same(<<idx, total, mats>>)

\* me = ob_eval.to_mesh()
ev_L70 == Step("L70", "L71", {"me"}, {}) /\ Same(<<idx, total, mats>>)

\* me.transform(ob.matrix_world)
ev_L71 == Step("L71", "L73", {}, {}) /\ Same(<<idx, total, mats>>)

\* bm.from_mesh(me): the object's geometry joins the mesh
ev_L73 ==
    Step("L73", "L75", {}, {}) /\ total' = total + items[idx] /\ Same(<<idx, mats>>)

\* ob_eval.to_mesh_clear()
ev_L75 ==
    Step("L75", "L68", {}, {"me"}) /\ idx' = idx + 1 /\ Same(<<total, mats>>)

\* bmesh.ops.triangulate(bm, faces=bm.faces, quad_method="SHORT_EDGE")
ev_L77 == Step("L77", "L79", {}, {}) /\ Same(<<idx, total, mats>>)

\* vol = bm.calc_volume()
ev_L79 == Step("L79", "L80", {}, {}) /\ Same(<<idx, total, mats>>)

\* bm.free()
ev_L80 == Step("L80", "L82", {}, {"bm"}) /\ Same(<<idx, total, mats>>)

\* return vol
ev_L82 == Step("L82", "returned", {}, {}) /\ Same(<<idx, total, mats>>)

\* ---- face_pos()
fp_call == \E its \in ItemLists : Begin("face_pos", its, FALSE, "L218")

\* depsgraph = bpy.context.evaluated_depsgraph_get(); mats = []
fp_L218 == Step("L218", "L221", {}, {}) /\ mats' = <<>> /\ Same(<<idx, total>>)

\* for ob in bpy.context.objects_in_mode:
fp_L221 ==
    /\ Step("L221", IF idx <= Len(items) THEN "L222" ELSE "L239", {}, {})
    /\ Same(<<idx, total, mats>>)

\* ob.update_from_editmode()
fp_L222 == Step("L222", "L223", {}, {}) /\ Same(<<idx, total, mats>>)

\* depsgraph.update()
fp_L223 == Step("L223", "L225", {}, {}) /\ Same(<<idx, total, mats>>)

\* ob_eval = ob.evaluated_get(depsgraph)
fp_L225 == Step("L225", "L226", {}, {}) /\ Same(<<idx, total, mats>>)

\* me = ob_eval.to_mesh()
fp_L226 == Step("L226", "L227", {"me"}, {}) /\ Same(<<idx, total, mats>>)

\* me.transform(ob.matrix_world)
fp_L227 == Step("L227", "L229", {}, {}) /\ Same(<<idx, total, mats>>)

\* for poly in me.polygons: if poly.select: mats.append(mat); the object's
\* first items[idx] polygons are the selected ones
fp_L229 ==
    /\ Step("L229", "L237", {}, {})
    /\ mats' = mats \o [p \in 1..items[idx] |-> <<idx, p>>]
    /\ Same(<<idx, total>>)

\* ob_eval.to_mesh_clear()
fp_L237 ==
    Step("L237", "L221", {}, {"me"}) /\ idx' = idx + 1 /\ Same(<<total, mats>>)

\* return mats
fp_L239 == Step("L239", "returned", {}, {}) /\ Same(<<idx, total, mats>>)

\* ---- an exception
\* The statements that call into the kernel or the scene.
KernelCalls ==
    {"L65", "L66", "L69", "L70", "L71", "L73", "L75", "L77", "L79", "L80",
     "L105", "L106", "L107", "L108", "L110", "L111", "L113", "L120",
     "L130", "L131", "L138",
     "L222", "L223", "L225", "L226", "L227", "L229", "L237", "L218"}

\* The loops whose body calls into the kernel, once per element.
KernelLoops == {"L117", "L135"}

\* The statement raises: the exception leaves the function at once.
Raise ==
    /\ pc \in KernelCalls \/ (pc \in KernelLoops /\ idx <= Len(items))
    /\ pc' = "raised"
    /\ UNCHANGED <<fn, data, mods, settings, saved, live, leaked, items, idx,
                   total, mats, meshVars, localeVars>>

MeasureInit ==
    /\ data \in [bevel_object : 0..1, bevel_depth : 0..MaxValue, extrude : 0..MaxValue]
    /\ MeasureIdle
    /\ MeshIdle
    /\ LocaleIdle

est_curve_length ==
    \/ ecl_call \/ ecl_L91 \/ ecl_L97 \/ ecl_L105 \/ ecl_L106 \/ ecl_L107
    \/ ecl_L108 \/ ecl_L110 \/ ecl_L111 \/ ecl_L113 \/ ecl_L115 \/ ecl_L117
    \/ ecl_L120 \/ ecl_L125 \/ ecl_L130 \/ ecl_L131 \/ ecl_L133 \/ ecl_L135
    \/ ecl_L138 \/ ecl_L140

est_volume ==
    \/ ev_call \/ ev_L65 \/ ev_L66 \/ ev_L68 \/ ev_L69 \/ ev_L70 \/ ev_L71
    \/ ev_L73 \/ ev_L75 \/ ev_L77 \/ ev_L79 \/ ev_L80 \/ ev_L82

face_pos ==
    \/ fp_call \/ fp_L218 \/ fp_L221 \/ fp_L222 \/ fp_L223 \/ fp_L225
    \/ fp_L226 \/ fp_L227 \/ fp_L229 \/ fp_L237 \/ fp_L239

\* ------------------------------------------------------------ the calls
\* One action per helper: the caller passes the mesh and lists it holds, and
\* keeps the list of vertices a helper returns.

\* The traversals read the mesh and change nothing: what can follow one is
\* what can follow the state it was called in, so calls start from the states
\* the builders reach.
Building == call.op \notin {"edge_loop_expand", "edge_loop_walk"}

\* The call just made: `c` holds its name and arguments, `r` its result.
Returns(c, r, keep) ==
    /\ UNCHANGED <<measureVars, localeVars>>
    /\ bm' = r.bm
    /\ call' = [c EXCEPT !.pre = bm, !.raised = r.raised, !.out = r.out]
    /\ rings' = IF keep /\ ~r.raised THEN Append(rings, r.out.verts) ELSE rings

MakeRect(C, maxv) ==
    /\ Building
    /\ NumVerts(bm) + 4 <= maxv
    /\ Len(rings) < MaxRings(maxv)
    /\ \E x \in C, y \in C, z \in C :
          Returns([NoCall EXCEPT !.op = "make_rect", !.x = x, !.y = y, !.z = z],
                  make_rect(bm, x, y, z), TRUE)

MakeTri(C, maxv) ==
    /\ Building
    /\ NumVerts(bm) + 3 <= maxv
    /\ Len(rings) < MaxRings(maxv)
    /\ \E x \in C, y \in C, z \in C :
          Returns([NoCall EXCEPT !.op = "make_tri", !.x = x, !.y = y, !.z = z],
                  make_tri(bm, x, y, z), TRUE)

\* The selections: any vertices of the mesh, or the first vertices of a list
\* the caller holds.
AnySelection == SUBSET (1..NumVerts(bm))

RingPrefixes ==
    UNION {{Range(SubSeq(rings[r], 1, k)) : k \in 0..Len(rings[r])} :
              r \in 1..Len(rings)}

\* z: <<FALSE, 0>> is z=None, <<TRUE, n>> is z=n.
AnyZ == {<<FALSE, 0>>} \cup {<<TRUE, n>> : n \in Coord}

StampZ == {<<TRUE, 0>>}

DuplicateVerts(Sels, Zs, maxv) ==
    /\ Building
    /\ Len(rings) < MaxRings(maxv)
    /\ \E S \in Sels, z \in Zs :
          /\ NumVerts(bm) + Cardinality(S) <= maxv
          /\ Returns([NoCall EXCEPT !.op = "duplicate_verts",
                         !.verts = SortedSeq(S), !.hasz = z[1], !.z = z[2]],
                     duplicate_verts(bm, SortedSeq(S), z[1], z[2]), TRUE)

MakeEdges ==
    /\ Building
    /\ \E r \in 1..Len(rings) :
          Returns([NoCall EXCEPT !.op = "make_edges", !.verts = rings[r]],
                  make_edges(bm, rings[r]), FALSE)

BridgeVerts ==
    /\ Building
    /\ \E r1, r2 \in 1..Len(rings) :
          /\ r1 # r2
          /\ Returns([NoCall EXCEPT !.op = "bridge_verts",
                         !.verts = rings[r1], !.verts2 = rings[r2]],
                     bridge_verts(bm, rings[r1], rings[r2]), FALSE)

EdgeLoopExpand ==
    /\ Building
    /\ \E e \in 1..Len(bm.edges), limit \in 0..MaxLimit :
          Returns([NoCall EXCEPT !.op = "edge_loop_expand",
                      !.edge = e, !.limit = limit],
                  edge_loop_expand(bm, e, limit), FALSE)

\* The vertex list: a list the caller holds, from any of its vertices on.
Rotate(s, k) == [i \in 1..Len(s) |-> s[((i + k - 2) % Len(s)) + 1]]

EdgeLoopWalk ==
    /\ Building
    /\ \E r \in 1..Len(rings) :
          \E k \in 1..(IF Len(rings[r]) = 0 THEN 1 ELSE Len(rings[r])) :
              Returns([NoCall EXCEPT !.op = "edge_loop_walk",
                          !.verts = Rotate(rings[r], k)],
                      edge_loop_walk(bm, Rotate(rings[r], k)), FALSE)

MeshInit ==
    /\ MeshIdle
    /\ data = ResetSettings
    /\ MeasureIdle
    /\ LocaleIdle

vars == <<meshVars, measureVars, localeVars>>

\* The primitives and duplication, over every coordinate.
PrimNext ==
    \/ MakeRect(Coord, PrimMaxVerts)
    \/ MakeTri(Coord, PrimMaxVerts)
    \/ DuplicateVerts(AnySelection, AnyZ, PrimMaxVerts)

SpecPrim == MeshInit /\ [][PrimNext]_vars

\* The measurement functions, called one after another.
MeasureNext == est_volume \/ est_curve_length \/ face_pos \/ Raise

SpecMeasure == MeasureInit /\ [][MeasureNext]_vars

\* Lookups in the localization table.
LocaleNext == Lookup

SpecLocale == MeshInit /\ [][LocaleNext]_vars

\* Rings of one size, stamped at height 0 when duplicated.
TopoCoord == {MaxCoord}

\* Ring edges and the walk along them.
RingNext ==
    \/ MakeRect(TopoCoord, RingMaxVerts)
    \/ MakeTri(TopoCoord, RingMaxVerts)
    \/ DuplicateVerts(AnySelection, StampZ, RingMaxVerts)
    \/ MakeEdges
    \/ EdgeLoopWalk

SpecRing == MeshInit /\ [][RingNext]_vars

\* Bridged rings and the expansion along their edge loops.
TopoNext ==
    \/ MakeRect(TopoCoord, TopoMaxVerts)
    \/ MakeTri(TopoCoord, TopoMaxVerts)
    \/ DuplicateVerts(RingPrefixes, StampZ, TopoMaxVerts)
    \/ BridgeVerts
    \/ EdgeLoopExpand

SpecTopo == MeshInit /\ [][TopoNext]_vars

\* ---------------------------------------------------------------- claims

\* The coordinates of the vertices a call returned.
OutCo(i) == bm.verts[call.out.verts[i]]

\* The mesh's earlier vertices, edges and faces are those it had.
KeepsVerts == SubSeq(bm.verts, 1, NumVerts(call.pre)) = call.pre.verts

\* C7: make_rect adds exactly 4 vertices and returns them in the order
\* (+x,+y,z), (-x,+y,z), (-x,-y,z), (+x,-y,z); when x # 0 and y # 0 every two
\* cyclically consecutive returned vertices have distinct coordinates.
C7_MakeRectWinding ==
    call.op = "make_rect" =>
        LET n == NumVerts(call.pre)
            x == call.x * Den
            y == call.y * Den
            z == call.z * Den
        IN /\ ~call.raised
           /\ NumVerts(bm) = n + 4
           /\ KeepsVerts
           /\ call.out.verts = <<n + 1, n + 2, n + 3, n + 4>>
           /\ OutCo(1) = <<x, y, z>>
           /\ OutCo(2) = <<0 - x, y, z>>
           /\ OutCo(3) = <<0 - x, 0 - y, z>>
           /\ OutCo(4) = <<x, 0 - y, z>>
           /\ (call.x # 0 /\ call.y # 0) =>
                  \A i \in 1..4 : OutCo(i) # OutCo((i % 4) + 1)

C7_Witness ==
    /\ call.op = "make_rect"
    /\ call.x < 0
    /\ call.y > 0
    /\ NumVerts(call.pre) > 0

\* C8: make_tri returns exactly 3 vertices, all on plane z, at (x, y/3, z),
\* (-x, y/3, z) and (0, -2y/3, z): their x-coordinates sum to 0 and their
\* y-coordinates sum to 0, whatever x and y.
C8_MakeTriCentered ==
    call.op = "make_tri" =>
        LET n == NumVerts(call.pre)
        IN /\ ~call.raised
           /\ NumVerts(bm) = n + 3
           /\ KeepsVerts
           /\ call.out.verts = <<n + 1, n + 2, n + 3>>
           /\ \A i \in 1..3 : OutCo(i)[3] = call.z * Den
           /\ OutCo(1)[1] = call.x * Den
           /\ OutCo(2)[1] = 0 - call.x * Den
           /\ OutCo(3)[1] = 0
           /\ 3 * OutCo(1)[2] = call.y * Den
           /\ 3 * OutCo(2)[2] = call.y * Den
           /\ 3 * OutCo(3)[2] = 0 - 2 * call.y * Den
           /\ OutCo(1)[1] + OutCo(2)[1] + OutCo(3)[1] = 0
           /\ OutCo(1)[2] + OutCo(2)[2] + OutCo(3)[2] = 0

C8_Witness ==
    /\ call.op = "make_tri"
    /\ call.x # 0
    /\ call.y < 0
    /\ NumVerts(call.pre) > 0

\* C6: duplicate_verts(mesh, V, z=Z) returns exactly |V| vertices, all newly
\* created (none is in V), each with z-coordinate exactly Z, and the
\* z-coordinate of every vertex of V is what it was.
C6_DuplicateStamps ==
    (call.op = "duplicate_verts" /\ call.hasz) =>
        /\ ~call.raised
        /\ Len(call.out.verts) = Len(call.verts)
        /\ IsInjective(call.out.verts)
        /\ NumVerts(bm) = NumVerts(call.pre) + Len(call.verts)
        /\ \A i \in 1..Len(call.out.verts) :
              /\ call.out.verts[i] \notin Range(call.verts)
              /\ call.out.verts[i] \notin 1..NumVerts(call.pre)
              /\ call.out.verts[i] \in 1..NumVerts(bm)
              /\ OutCo(i)[3] = call.z * Den
        /\ \A v \in Range(call.verts) : bm.verts[v][3] = call.pre.verts[v][3]

C6_Witness ==
    /\ call.op = "duplicate_verts"
    /\ call.hasz
    /\ Len(call.verts) >= 2
    /\ \E v \in Range(call.verts) : call.pre.verts[v][3] # call.z * Den
    /\ \E v \in 1..NumVerts(call.pre) : v \notin Range(call.verts)

\* The cyclic successor of position i in a list of n.
Succ(i, n) == (i % n) + 1

\* C5: for a ring of N >= 3 distinct vertices with no edge yet between
\* consecutive vertices, make_edges creates and returns exactly N edges in
\* ring order, the i-th joining vertex i and vertex (i+1) mod N.
C5_MakeEdgesCyclic ==
    LET vs == call.verts
        n == Len(vs)
    IN (/\ call.op = "make_edges"
        /\ n >= 3
        /\ IsInjective(vs)
        /\ \A i \in 1..n : EdgeIndex(call.pre, vs[i], vs[Succ(i, n)]) = 0)
       => /\ ~call.raised
          /\ Len(call.out.edges) = n
          /\ Len(bm.edges) = Len(call.pre.edges) + n
          /\ SubSeq(bm.edges, 1, Len(call.pre.edges)) = call.pre.edges
          /\ \A i \in 1..n :
                /\ call.out.edges[i] = Len(call.pre.edges) + i
                /\ bm.edges[call.out.edges[i]] = {vs[i], vs[Succ(i, n)]}

C5_Witness ==
    /\ call.op = "make_edges"
    /\ Len(call.verts) >= 4
    /\ ~call.raised
    /\ Len(call.pre.edges) > 0

\* The vertex list is a simple cycle: its vertices are distinct, each is
\* joined to the next by an edge, and each has exactly two edges.
SimpleCycle(m, vs) ==
    /\ Len(vs) >= 3
    /\ IsInjective(vs)
    /\ \A i \in 1..Len(vs) :
          /\ EdgeIndex(m, vs[i], vs[Succ(i, Len(vs))]) # 0
          /\ Len(link_edges(m, vs[i])) = 2

\* C10: on a simple cycle edge_loop_walk returns len(vertices) points, the
\* first the coordinate of vertices[0]; consecutive points are those of
\* vertices joined by an edge, no step goes back along the edge just taken,
\* and each vertex of the cycle gives exactly one point.
C10_WalkCoversCycle ==
    LET vs == call.verts
        n == Len(vs)
        o == call.out
    IN (call.op = "edge_loop_walk" /\ SimpleCycle(call.pre, vs))
       => /\ ~call.raised
          /\ bm = call.pre
          /\ Len(o.coords) = n
          /\ Len(o.verts) = n
          /\ o.coords[1] = bm.verts[vs[1]]
          /\ \A k \in 1..n : o.coords[k] = bm.verts[o.verts[k]]
          /\ \A k \in 1..(n - 1) :
                bm.edges[o.edges[k]] = {o.verts[k], o.verts[k + 1]}
          /\ \A k \in 1..(n - 2) : o.edges[k] # o.edges[k + 1]
          /\ IsInjective(o.verts)
          /\ Range(o.verts) = Range(vs)

C10_Witness ==
    /\ call.op = "edge_loop_walk"
    /\ SimpleCycle(call.pre, call.verts)
    /\ Len(call.verts) >= 4
    /\ Len(call.out.coords) = Len(call.verts)
    /\ call.out.verts[2] = call.verts[2]

\* The two lists are rings of one length that no face joins yet.
FreshRings(m, a, b) ==
    /\ Len(a) = Len(b)
    /\ IsInjective(a)
    /\ IsInjective(b)
    /\ Range(a) \cap Range(b) = {}
    /\ \A f \in 1..Len(m.faces) :
          Range(m.faces[f]) \cap Range(a) = {} \/ Range(m.faces[f]) \cap Range(b) = {}

\* bridge_verts made N faces of 4 edges and returned N rungs, the i-th the
\* second edge of face i and joining A[i] to B[i].
BridgedByRungs ==
    LET a == call.verts
        b == call.verts2
        n == Len(a)
        o == call.out
    IN /\ ~call.raised
       /\ Len(o.faces) = n
       /\ Len(bm.faces) = Len(call.pre.faces) + n
       /\ Len(o.edges) = n
       /\ \A i \in 1..n :
             /\ o.faces[i] = Len(call.pre.faces) + i
             /\ Len(FaceEdges(bm, o.faces[i])) = 4
             /\ Cardinality(Range(FaceEdges(bm, o.faces[i]))) = 4
             /\ 0 \notin Range(FaceEdges(bm, o.faces[i]))
             /\ o.edges[i] = FaceEdges(bm, o.faces[i])[2]
             /\ bm.edges[o.edges[i]] = {a[i], b[i]}

\* C4 as stated: for two rings of equal length N, whatever N (the least ring
\* taken to be one of two vertices).
C4_AnyLength ==
    (/\ call.op = "bridge_verts"
     /\ FreshRings(call.pre, call.verts, call.verts2)
     /\ Len(call.verts) >= 2)
        => BridgedByRungs

\* C4, amended: for two consistently ordered vertex rings A and B of equal
\* length N >= 3, bridge_verts creates exactly N faces, each with exactly 4
\* edges, and returns exactly N rung edges (edges[1] of each face), the i-th
\* joining A[i] to B[i].
C4_BridgeRungs ==
    (/\ call.op = "bridge_verts"
     /\ FreshRings(call.pre, call.verts, call.verts2)
     /\ Len(call.verts) >= 3)
        => BridgedByRungs

C4_Witness ==
    /\ call.op = "bridge_verts"
    /\ FreshRings(call.pre, call.verts, call.verts2)
    /\ Len(call.verts) >= 3
    /\ Len(call.out.edges) = Len(call.verts)
    /\ Len(call.pre.faces) > 0

\* The loop k expansions forward (or backward) of loop l.
RECURSIVE LoopAfter(_, _, _, _)
LoopAfter(m, l, k, forward) ==
    IF k = 0 THEN l
    ELSE LET p == LoopAfter(m, l, k - 1, forward)
         IN IF forward THEN loop_forward(m, p) ELSE loop_backward(m, p)

\* The seed is an edge of a face, and the limit is at least 1.
ExpandsFromFace ==
    /\ call.op = "edge_loop_expand"
    /\ Len(link_loops(call.pre, call.edge)) > 0
    /\ call.limit >= 1

\* The list starts with the seed, then holds per iteration one edge forward
\* of the seed and one edge backward of it.
SeedThenAlternating ==
    LET o == call.out.edges
        l0 == link_loops(bm, call.edge)[1]
    IN /\ ~call.raised
       /\ bm = call.pre
       /\ Len(o) >= 1
       /\ o[1] = call.edge
       /\ Len(o) % 2 = 1
       /\ \A k \in 1..((Len(o) - 1) \div 2) :
             /\ o[2 * k] = LoopEdge(bm, LoopAfter(bm, l0, k, TRUE))
             /\ o[2 * k + 1] = LoopEdge(bm, LoopAfter(bm, l0, k, FALSE))

\* C3 as stated, for a seed between two quads: the list's total length is at
\* most limit.
C3_AtMostLimit ==
    (ExpandsFromFace /\ Len(link_loops(call.pre, call.edge)) = 2)
        => (SeedThenAlternating /\ Len(call.out.edges) <= call.limit)

\* C3, amended: for every seed edge on a quad edge loop and every limit >= 1,
\* edge_loop_expand(seed, limit) returns a list whose first element is the
\* seed and whose total length is exactly 2 * limit - 1 (the seed, limit - 1
\* forward and limit - 1 backward expansions), one forward edge then one
\* backward edge appended per iteration.
C3_ExpandLength ==
    ExpandsFromFace =>
        (SeedThenAlternating /\ Len(call.out.edges) = 2 * call.limit - 1)

C3_Witness ==
    /\ ExpandsFromFace
    /\ call.limit >= 3
    /\ Len(link_loops(bm, call.edge)) = 2
    /\ Len(call.out.edges) = 2 * call.limit - 1
    /\ Cardinality(Range(call.out.edges)) = Len(call.out.edges)

\* C1: for a curve object with modifiers, once est_curve_length has ended, by
\* returning or by an exception raised between the override and the restore
\* loop, the curve's bevel_object, bevel_depth and extrude are what they
\* were before the call.
C1_RestoredAfterCall ==
    (fn = "est_curve_length" /\ mods /\ pc \in Ended) => data = saved

\* What the code does keep of C1: a call that returns has restored the curve.
RestoredOnReturn ==
    (fn = "est_curve_length" /\ pc = "returned") => data = saved

\* C2: in est_volume, est_curve_length and face_pos every temporary the call
\* acquired (the bmesh, each to_mesh snapshot, the curve copy) is released on
\* every exit path, an exception's included: none is live once the call ends.
C2_NothingLeftLive == pc \in Ended => live = {}

\* What the code does keep of C2: a call that returns has released them all.
ReleasedOnReturn == pc = "returned" => live = {}

\* C9: every message key one language of the table defines, every other
\* defines too: the key sets of locale['EN'] and locale['RU'] are equal, and
\* the lookup of a key either defines succeeds for both language codes.
C9_SameKeys ==
    /\ DOMAIN locale["EN"] = DOMAIN locale["RU"]
    /\ LangCodes = {"EN", "RU"}
    /\ (lang \in LangCodes /\ key \in AllKeys) =>
          (text.found /\ text.value = locale[lang][key])

C9_Witness ==
    /\ lang = "RU"
    /\ key = "error_digit"
    /\ text.found
    /\ key \in DOMAIN locale["EN"]

====
